---- MODULE Spec2Model ----
(***************************************************************************)
(* Orchestration core of the web-augmented multi-perspective summarizer:   *)
(*   - check_relevance   (src/validation/relevance_checker.py)            *)
(*   - summarize_query   (src/summarization/llm_summary.py)               *)
(*   - main              (run_pipeline.py), the loop over merged entries  *)
(*   - retrieve_local_docs (src/retrieval/tfidf_retrieval.py)            *)
(*   - merge_docs_lists  (src/summarization/merge.py)                      *)
(*   - recall_at_k, cover_at_k (src/evaluation/local_metrics.py)           *)
(*   - process_web_file  (src/validation/run_relevance_check.py)           *)
(* Text is modelled as TLA+ strings; a generated text is a sequence of     *)
(* chunks.  External oracles (chat completion, generator) answer           *)
(* nondeterministically.                                                   *)
(***************************************************************************)
EXTENDS Integers, Sequences, FiniteSets, TLC

VARIABLES
    \* ---- check_relevance ----
    web_docs,       \* argument web_docs: sequence of [id, content]
    api_key,        \* os.getenv("OPENAI_API_KEY") is a non-empty string
    client_ok,      \* OpenAI(api_key=...) constructs without raising
    cr_pc,          \* "call" | "attempt" | "returned" | "raised"
    attempt,        \* loop variable of `for attempt in range(max_retries)`
    oracle_calls,   \* number of client.chat.completions.create invocations
    cr_result,      \* the returned dict (str -> label); <<>> until returned
    cr_log,         \* one record per attempt made: [kind, ok]
    cr_parsed,      \* the JSON object of the attempt that returned, if any
    \* ---- summarize_query ----
    sq_query,       \* argument query
    sq_corpus,      \* argument merged_corpus: sequence of [id, content]
    sq_claims,      \* argument claims: sequence of strings
    cuda,           \* torch.cuda.is_available()
    load_ok,        \* from_pretrained(...) / .to("cuda") succeed
    sq_pc,          \* "idle" | "call" | "generate" | "returned" | "raised"
    sq_ret,         \* the returned dict; <<>> until returned
    sq_exc,         \* message of the exception that left summarize_query, or ""
    sq_out,         \* what the generator did in this call: [raises, msg, text]
    cuda_checks,    \* number of torch.cuda.is_available() evaluations
    model_loads,    \* number of completed tokenizer+model loads
    gen_calls,      \* number of tokenizer/generate/decode invocations
    \* ---- run_pipeline.main ----
    merged_data,    \* entries [query, merged] read from merged-<k>.json
    limit,          \* --limit: [set, n]; set = FALSE is None
    pl_pc,          \* "none" | "start" | "loop" | "in_call" | "done" | "aborted"
    pl_i,           \* number of entries the loop has completed
    results,        \* the list `results`
    results_file,   \* [written, content]: the output file
    \* ---- retrieve_local_docs ----
    rt_evidence,    \* argument evidence as the caller passed it: sequence of dicts
    rt_k,           \* argument k
    rt_pc,          \* "none" | "call" | "scored" | "returned" | "raised"
    rt_heap,        \* the dict objects alive: the caller's documents first,
                    \* then the copies made by the call
    similarities,   \* cosine_similarity(...)[0], one level per document
    top_k_indices,  \* np.argsort(similarities)[-k:][::-1]
    top_docs,       \* the returned list, as references into rt_heap
    fit_calls,      \* number of vectorizer.fit_transform invocations
    \* ---- merge_docs_lists ----
    mg_local,       \* argument local_docs
    mg_web,         \* argument web_docs
    mg_pc,          \* "none" | "call" | "returned"
    mg_ret,         \* the returned list
    \* ---- recall_at_k / cover_at_k ----
    retrieved_ids,  \* argument retrieved_ids (covered_perspectives of cover_at_k)
    gold_ids,       \* argument gold_ids (gold_perspectives of cover_at_k)
    mt_k,           \* argument k
    mt_pc,          \* "none" | "call" | "returned"
    mt_recall,      \* value returned by recall_at_k, as a fraction [num, den]
    mt_cover,       \* value returned by cover_at_k, as a fraction [num, den]
    \* ---- process_web_file ----
    pw_file,        \* content of the input file: sequence of [query, results]
    pw_limit,       \* argument limit: [set, n]; set = FALSE is None
    dry_run,        \* argument dry_run
    pw_pc,          \* "none" | "start" | "loop" | "done" | "aborted"
    pw_data,        \* queries_to_process, its documents updated in place
    output_data,    \* the list output_data
    pw_maps,        \* the map check_relevance returned for each processed query
    output_file     \* [written, content]: the output file

cr_vars == <<web_docs, api_key, client_ok, cr_pc, attempt, oracle_calls,
             cr_result, cr_log, cr_parsed>>

sq_vars == <<sq_query, sq_corpus, sq_claims, cuda, load_ok, sq_pc, sq_ret, sq_exc,
             sq_out, cuda_checks, model_loads, gen_calls>>

pl_vars == <<merged_data, limit, pl_pc, pl_i, results, results_file>>

rt_vars == <<rt_evidence, rt_k, rt_pc, rt_heap, similarities, top_k_indices,
             top_docs, fit_calls>>

mg_vars == <<mg_local, mg_web, mg_pc, mg_ret>>

mt_vars == <<retrieved_ids, gold_ids, mt_k, mt_pc, mt_recall, mt_cover>>

pw_vars == <<pw_file, pw_limit, dry_run, pw_pc, pw_data, output_data, pw_maps,
             output_file>>

(* the variables of the stand-alone functions and of process_web_file *)
fn_vars == <<rt_vars, mg_vars, mt_vars, pw_vars>>

vars == <<cr_vars, sq_vars, pl_vars, fn_vars>>

----------------------------------------------------------------------------
(* Bounds of the model *)

MaxDocs == 2        \* longest web_docs list
MaxJsonLen == 1     \* longest JSON array / JSON string answered by the oracle
MaxCorpus == 4      \* longest merged_corpus given to summarize_query
MaxClaims == 3      \* longest claims list given to summarize_query
MaxSegments == 2    \* longest generated text, in segments
MaxEntries == 2     \* longest merged_data list of a pipeline run
MaxPipeCorpus == 1  \* longest merged corpus of a pipeline entry
MaxEvidence == 3    \* longest evidence list given to retrieve_local_docs
MaxLocal == 2       \* longest local_docs list given to merge_docs_lists
MaxWeb == 2         \* longest web_docs list given to merge_docs_lists
MaxRetrieved == 3   \* longest retrieved_ids list given to the metrics
MaxGold == 2        \* longest gold_ids list given to the metrics
MaxQueries == 2     \* most queries in an input file of process_web_file
MaxResults == 2     \* most documents in the results of one query

(* Program constants *)

max_retries == 3
FallbackDocs == 3   \* merged_corpus[:3]

----------------------------------------------------------------------------
(* Generic helpers *)

Range(s) == {s[i] : i \in DOMAIN s}

SeqsUpTo(S, n) == UNION {[1..m -> S] : m \in 0..n}

Digit(n) ==
    CASE n = 0 -> "0" [] n = 1 -> "1" [] n = 2 -> "2" [] n = 3 -> "3"
      [] n = 4 -> "4" [] n = 5 -> "5" [] n = 6 -> "6" [] n = 7 -> "7"
      [] n = 8 -> "8" [] n = 9 -> "9"

RECURSIVE IntToStr(_)
IntToStr(n) == IF n < 10 THEN Digit(n) ELSE IntToStr(n \div 10) \o Digit(n % 10)

(* A document id is an int or a str (heterogeneous across sources). *)
IntId(n) == [t |-> "int", n |-> n, s |-> ""]
StrId(s) == [t |-> "str", n |-> 0, s |-> s]

(* Python str(doc['id']) *)
Str(id) == IF id.t = "int" THEN IntToStr(id.n) ELSE id.s

(* Concatenation of a sequence of strings *)
RECURSIVE Join(_)
Join(cs) == IF cs = <<>> THEN "" ELSE Head(cs) \o Join(Tail(cs))

----------------------------------------------------------------------------
(* Inputs of check_relevance *)

(* ids of web documents: ints, and a str that collides with str(0) *)
WebIds == {IntId(0), IntId(1), StrId("0")}

WebDoc(id) == [id |-> id, content |-> "text"]

WebDocLists == SeqsUpTo({WebDoc(id) : id \in WebIds}, MaxDocs)

(* JSON values the oracle can put in an object: strings and non-strings *)
JStr(s) == [t |-> "str", v |-> s]
JNum(s) == [t |-> "num", v |-> s]
JsonVals == {JStr("R"), JStr("NR"), JStr("yes"), JNum("1")}

(* keys the oracle can use: the string forms of ids, and one foreign key *)
JsonKeys == {Str(id) : id \in WebIds} \cup {"9"}

JsonObjects == UNION {[K -> JsonVals] : K \in SUBSET JsonKeys}
JsonArrays  == SeqsUpTo(JsonKeys, MaxJsonLen)
JsonStrings == SeqsUpTo({"0", "1", "x"}, MaxJsonLen)   \* as sequences of characters

----------------------------------------------------------------------------
(* check_relevance, lines 74-98: one attempt on an oracle answer *)

(* a validation that accepts any string value as a label *)
IsLabelAnyString(value) == value.t = "str"

IsLabel(value) == value.t = "str" /\ value.v \in {"R", "NR"}

(* lines 78-87: the validation loop over web_docs, result built in order *)
RECURSIVE ValidateFrom(_, _, _, _)
ValidateFrom(docs, i, classifications, result) ==
    IF i > Len(docs) THEN result
    ELSE LET doc_id == Str(docs[i].id)
             label  == IF doc_id \in DOMAIN classifications
                       THEN IF IsLabel(classifications[doc_id])
                            THEN classifications[doc_id].v
                            ELSE "NR"
                       ELSE "NR"
         IN ValidateFrom(docs, i + 1, classifications, (doc_id :> label) @@ result)

(* a validation that iterates the keys of the oracle's object instead of web_docs *)
ValidateOracleKeys(docs, classifications) ==
    [k \in DOMAIN classifications |->
        IF IsLabel(classifications[k]) THEN classifications[k].v ELSE "NR"]

Validate(docs, classifications) == ValidateFrom(docs, 1, classifications, <<>>)

(* a final fallback that returns the empty dict *)
EmptyFallback(docs) == <<>>

(* line 98 / 101: {str(doc['id']): "NR" for doc in web_docs} *)
AllNR(docs) == [k \in {Str(docs[i].id) : i \in DOMAIN docs} |-> "NR"]

(* `doc_id in s` for a str s: substring test *)
IsSubstring(sub, chars) ==
    \E i \in 1..Len(chars) : \E j \in i..Len(chars) : Join(SubSeq(chars, i, j)) = sub

Failed == [ok |-> FALSE, result |-> <<>>]
Succeeded(result) == [ok |-> TRUE, result |-> result]

(* lines 66-91: the try body on one oracle answer.
   kind "raise":  create() raised
   kind "text":   content is not JSON (json.loads raises JSONDecodeError)
   kind "obj":    a JSON object
   kind "arr":    a JSON array: `in` is membership, subscripting by a str raises
   kind "str":    a JSON string: `in` is substring, subscripting by a str raises
   kind "scalar": number, true, false, null: `in` raises TypeError *)
TryAttempt(docs, resp) ==
    CASE resp.k = "raise"  -> Failed
      [] resp.k = "text"   -> Failed
      [] resp.k = "obj"    -> Succeeded(Validate(docs, resp.v))
      [] resp.k = "arr"    ->
            IF \E i \in DOMAIN docs : Str(docs[i].id) \in Range(resp.v)
            THEN Failed ELSE Succeeded(Validate(docs, <<>>))
      [] resp.k = "str"    ->
            IF \E i \in DOMAIN docs : IsSubstring(Str(docs[i].id), resp.v)
            THEN Failed ELSE Succeeded(Validate(docs, <<>>))
      [] resp.k = "scalar" -> Failed

----------------------------------------------------------------------------
(* Actions of check_relevance *)

(* lines 30-61: empty short-circuit, prompt, credential, client *)
CR_Entry ==
    /\ cr_pc = "call"
    /\ cr_pc' = IF web_docs = <<>> THEN "returned"
                ELSE IF ~api_key THEN "raised"          \* ValueError, line 59
                ELSE IF ~client_ok THEN "raised"        \* OpenAI(...) raised, line 61
                ELSE "attempt"
    /\ UNCHANGED <<web_docs, api_key, client_ok, attempt, oracle_calls,
                   cr_result, cr_log, cr_parsed>>
    /\ UNCHANGED <<sq_vars, pl_vars, fn_vars>>

(* lines 65-98: one iteration of the retry loop *)
CR_Attempt(resp) ==
    /\ cr_pc = "attempt"
    /\ attempt < max_retries
    /\ oracle_calls' = oracle_calls + 1
    /\ LET out == TryAttempt(web_docs, resp) IN
         /\ cr_log' = Append(cr_log, [kind |-> resp.k, ok |-> out.ok])
         /\ IF out.ok
            THEN /\ cr_result' = out.result
                 /\ cr_parsed' = IF resp.k = "obj" THEN resp.v ELSE <<>>
                 /\ cr_pc' = "returned"
                 /\ attempt' = attempt
            ELSE IF attempt < max_retries - 1
            THEN /\ attempt' = attempt + 1
                 /\ UNCHANGED <<cr_result, cr_parsed, cr_pc>>
            ELSE /\ cr_result' = AllNR(web_docs)
                 /\ cr_pc' = "returned"
                 /\ UNCHANGED <<attempt, cr_parsed>>
    /\ UNCHANGED <<web_docs, api_key, client_ok>>
    /\ UNCHANGED <<sq_vars, pl_vars, fn_vars>>

(* what the chat completion can answer *)
CR_Oracle ==
  /\ cr_pc = "attempt"
  /\
    \/ CR_Attempt([k |-> "raise", v |-> <<>>])
    \/ CR_Attempt([k |-> "text", v |-> <<>>])
    \/ CR_Attempt([k |-> "scalar", v |-> <<>>])
    \/ \E P \in JsonObjects : CR_Attempt([k |-> "obj", v |-> P])
    \/ \E L \in JsonArrays : CR_Attempt([k |-> "arr", v |-> L])
    \/ \E S \in JsonStrings : CR_Attempt([k |-> "str", v |-> S])

----------------------------------------------------------------------------
(* Inputs of summarize_query *)

Min(a, b) == IF a < b THEN a ELSE b
Max(a, b) == IF a > b THEN a ELSE b

(* the n-th document of the corpus pool: distinct ids, ints and urls mixed *)
CorpusDoc(n) ==
    [id |-> IF n % 2 = 1 THEN IntId(n) ELSE StrId("u" \o IntToStr(n)),
     content |-> "text"]

CorpusOfLen(n) == [i \in 1..n |-> CorpusDoc(i)]

Corpora == {CorpusOfLen(n) : n \in 0..MaxCorpus}

ClaimTexts == {"a", "b"}
ClaimLists == SeqsUpTo(ClaimTexts, MaxClaims)

(* chunks of a generated text *)
Fence == "<fence>"   \* stands for three backticks
Space == " "
Junk  == "Here is the summary"
JDocAB   == "{\"perspectives\": [{\"claim\": \"a\"}, {\"claim\": \"b\"}]}"
JDocQ    == "{\"query\": \"stale\", \"perspectives\": []}"
JDocList == "[]"

(* what the generator can put between two fences *)
BlockContents ==
    {<<>>, <<Junk>>, <<JDocAB>>, <<JDocQ>>, <<JDocList>>,
     <<Space, JDocAB, Space>>, <<Junk, JDocAB>>}

(* a segment of generated text: prose, a lone fence, or a fenced block *)
Segments ==
    {<<Junk>>, <<Fence>>} \cup {<<Fence>> \o c \o <<Fence>> : c \in BlockContents}

RECURSIVE Flatten(_)
Flatten(segs) == IF segs = <<>> THEN <<>> ELSE Head(segs) \o Flatten(Tail(segs))

Texts == {Flatten(segs) : segs \in SeqsUpTo(Segments, MaxSegments)}

GenRaises(msg) == [raises |-> TRUE, msg |-> msg, text |-> <<>>]
GenText(text)  == [raises |-> FALSE, msg |-> "", text |-> text]
NoOutput       == [raises |-> FALSE, msg |-> "", text |-> <<>>]

(* messages of the exceptions tokenize / generate / decode can raise *)
GenErrors == {"CUDA out of memory", "index out of range in self"}

(* generator outcomes explored in a pipeline run *)
PipeOutputs ==
    {GenRaises("CUDA out of memory"),
     GenText(<<>>),
     GenText(<<Fence, JDocAB, Fence>>),
     GenText(<<Fence, JDocQ, Fence>>)}

----------------------------------------------------------------------------
(* summarize_query, lines 116-163 *)

Perspective(claim, perspective, evidence_docs) ==
    [claim |-> claim, perspective |-> perspective, evidence_docs |-> evidence_docs]

(* json.loads on the JSON documents of the model *)
JsonValue(chunk) ==
    CASE chunk = JDocAB ->
            [t |-> "dict",
             v |-> [perspectives |-> <<Perspective("a", "pa", <<>>),
                                       Perspective("b", "pb", <<>>)>>]]
      [] chunk = JDocQ ->
            [t |-> "dict", v |-> [query |-> "stale", perspectives |-> <<>>]]
      [] chunk = JDocList ->
            [t |-> "list", v |-> <<>>]

JsonDocs == {JDocAB, JDocQ, JDocList}

(* re.findall of fence, lazy anything, fence with DOTALL: leftmost, non-overlapping,
   each match from a fence to the next fence *)
RECURSIVE FindAll(_, _)
FindAll(text, from) ==
    LET opens == {i \in from..Len(text) : text[i] = Fence} IN
    IF opens = {} THEN <<>>
    ELSE LET a == CHOOSE i \in opens : \A k \in opens : i <= k
             closes == {j \in (a + 1)..Len(text) : text[j] = Fence}
         IN IF closes = {} THEN <<>>
            ELSE LET b == CHOOSE j \in closes : \A k \in closes : j <= k
                 IN <<SubSeq(text, a + 1, b - 1)>> \o FindAll(text, b + 1)

(* str.strip() *)
RECURSIVE Strip(_)
Strip(cs) ==
    IF cs = <<>> THEN cs
    ELSE IF Head(cs) = Space THEN Strip(Tail(cs))
    ELSE IF cs[Len(cs)] = Space THEN Strip(SubSeq(cs, 1, Len(cs) - 1))
    ELSE cs

(* json.loads(json_str): [ok, t, v]; ok = FALSE is JSONDecodeError *)
JsonLoads(cs) ==
    IF Len(cs) = 1 /\ cs[1] \in JsonDocs
    THEN [ok |-> TRUE, t |-> JsonValue(cs[1]).t, v |-> JsonValue(cs[1]).v]
    ELSE [ok |-> FALSE, t |-> "", v |-> <<>>]

(* the first block, where the code takes the last *)
FirstBlock(blocks) == blocks[1]

(* backticks[-1] *)
LastBlock(blocks) == blocks[Len(blocks)]

(* a fallback grounded in every document of the corpus *)
AllIds(corpus) == [i \in 1..Len(corpus) |-> corpus[i].id]

(* [doc['id'] for doc in merged_corpus[:3]] *)
FallbackIds(corpus) == [i \in 1..Min(FallbackDocs, Len(corpus)) |-> corpus[i].id]

(* lines 126-131 / 135-140 *)
FallbackData(text, corpus, claims) ==
    [perspectives |->
        <<Perspective(claims[1], Join(text), FallbackIds(corpus)),
          Perspective(claims[2], Join(text), FallbackIds(corpus))>>]

(* an error record that carries no claims *)
ErrorRecordNoClaims(query, claims, msg) ==
    [query |-> query, perspectives |-> <<>>]

(* lines 149-163 *)
ErrorRecord(query, claims, msg) ==
    [query |-> query,
     perspectives |->
        <<Perspective(claims[1], "Could not generate perspective due to error: " \o msg, <<>>),
          Perspective(claims[2], "Could not generate perspective due to error: " \o msg, <<>>)>>]

(* a query field the parsed data already has is kept *)
KeepQuery(summary_data, query) == summary_data @@ ("query" :> query)

(* summary_data["query"] = query on a dict *)
SetQuery(summary_data, query) == ("query" :> query) @@ summary_data

(* lines 116-144 on a decoded response_text; item assignment on a value that
   is not a dict raises TypeError, caught at line 146 *)
Extract(query, corpus, claims, text) ==
    LET backticks == FindAll(text, 1) IN
    IF backticks # <<>>
    THEN LET parsed == JsonLoads(Strip(LastBlock(backticks))) IN
         IF parsed.ok
         THEN IF parsed.t = "dict"
              THEN SetQuery(parsed.v, query)
              ELSE ErrorRecord(query, claims,
                               "list indices must be integers or slices, not str")
         ELSE SetQuery(FallbackData(text, corpus, claims), query)
    ELSE SetQuery(FallbackData(text, corpus, claims), query)

(* lines 99-163: the try block on what the generator did *)
Generate(query, corpus, claims, out) ==
    IF out.raises THEN ErrorRecord(query, claims, out.msg)
    ELSE Extract(query, corpus, claims, out.text)

(* an entry that checks the accelerator before the precondition *)
EntryAcceleratorFirst(corpus, claims, cuda_available, loads) ==
    IF ~cuda_available THEN "fatal"
    ELSE IF corpus = <<>> \/ Len(claims) < 2 THEN "short"
    ELSE IF ~loads THEN "load_failed"
    ELSE "generate"

(* an entry that never checks the accelerator *)
EntryNoAcceleratorCheck(corpus, claims, cuda_available, loads) ==
    IF corpus = <<>> \/ Len(claims) < 2 THEN "short"
    ELSE IF ~loads THEN "load_failed"
    ELSE "generate"

(* lines 34-61: which way summarize_query leaves its entry *)
Entry(corpus, claims, cuda_available, loads) ==
    IF corpus = <<>> \/ Len(claims) < 2 THEN "short"
    ELSE IF ~cuda_available THEN "fatal"
    ELSE IF ~loads THEN "load_failed"
    ELSE "generate"

CudaError == "CUDA GPU is REQUIRED but not available!"
LoadError == "model load failed"

----------------------------------------------------------------------------
(* Actions of summarize_query *)

(* lines 34-97 *)
SQ_Entry ==
    /\ sq_pc = "call"
    /\ LET way == Entry(sq_corpus, sq_claims, cuda, load_ok) IN
         /\ sq_pc' = CASE way = "short" -> "returned"
                       [] way = "fatal" -> "raised"
                       [] way = "load_failed" -> "raised"
                       [] way = "generate" -> "generate"
         /\ sq_ret' = IF way = "short"
                      THEN [query |-> sq_query, perspectives |-> <<>>]
                      ELSE <<>>
         /\ sq_exc' = CASE way = "fatal" -> CudaError
                        [] way = "load_failed" -> LoadError
                        [] OTHER -> ""
         /\ cuda_checks' = IF way = "short" THEN cuda_checks ELSE cuda_checks + 1
         /\ model_loads' = IF way = "generate" THEN model_loads + 1 ELSE model_loads
    /\ UNCHANGED <<sq_query, sq_corpus, sq_claims, cuda, load_ok, sq_out, gen_calls>>
    /\ UNCHANGED <<cr_vars, pl_vars, fn_vars>>

(* lines 99-163 *)
SQ_Generate(out) ==
    /\ sq_pc = "generate"
    /\ gen_calls' = gen_calls + 1
    /\ sq_out' = out
    /\ sq_ret' = Generate(sq_query, sq_corpus, sq_claims, out)
    /\ sq_pc' = "returned"
    /\ UNCHANGED <<sq_query, sq_corpus, sq_claims, cuda, load_ok, sq_exc,
                   cuda_checks, model_loads>>
    /\ UNCHANGED <<cr_vars, pl_vars, fn_vars>>

(* what tokenize / generate / decode can do, over every text of the model *)
SQ_Generator ==
    /\ sq_pc = "generate"
    /\ \/ \E msg \in GenErrors : SQ_Generate(GenRaises(msg))
       \/ \E text \in Texts : SQ_Generate(GenText(text))

(* what tokenize / generate / decode can do in a pipeline run *)
SQ_PipeGenerator ==
    /\ sq_pc = "generate"
    /\ \E out \in PipeOutputs : SQ_Generate(out)

----------------------------------------------------------------------------
(* run_pipeline.main *)

(* claims of the loaded dataset, line 83 *)
Dataset == <<[query |-> "q1", claims |-> <<"a", "b">>],
             [query |-> "q2", claims |-> <<"a">>]>>

(* claims_dict.get(query_text, []) *)
ClaimsOf(query_text) ==
    IF \E i \in DOMAIN Dataset : Dataset[i].query = query_text
    THEN LET i == CHOOSE j \in DOMAIN Dataset :
                     /\ Dataset[j].query = query_text
                     /\ \A k \in DOMAIN Dataset :
                           Dataset[k].query = query_text => k <= j
         IN Dataset[i].claims
    ELSE <<>>

PipeQueries == {"q1", "q2", "q3"}
PipeEntries == {[query |-> q, merged |-> CorpusOfLen(n)] :
                    q \in PipeQueries, n \in 0..MaxPipeCorpus}

NoLimit == [set |-> FALSE, n |-> 0]
Limit(n) == [set |-> TRUE, n |-> n]

(* Python s[:n] *)
SliceTo(s, n) ==
    IF n >= 0 THEN SubSeq(s, 1, Min(n, Len(s)))
    ELSE SubSeq(s, 1, Max(0, Len(s) + n))

(* lines 101-118: load merged data, apply --limit, results = [] *)
Main_Load ==
    /\ pl_pc = "start"
    /\ merged_data' = IF limit.set THEN SliceTo(merged_data, limit.n) ELSE merged_data
    /\ results' = <<>>
    /\ pl_i' = 0
    /\ pl_pc' = "loop"
    /\ UNCHANGED <<limit, results_file, sq_vars, cr_vars, fn_vars>>

(* lines 119-135: the next entry, up to the call of summarize_query *)
Main_Call ==
    /\ pl_pc = "loop"
    /\ pl_i < Len(merged_data)
    /\ LET entry == merged_data[pl_i + 1] IN
         /\ sq_query' = entry.query
         /\ sq_corpus' = entry.merged
         /\ sq_claims' = ClaimsOf(entry.query)
    /\ sq_pc' = "call"
    /\ sq_ret' = <<>>
    /\ sq_out' = NoOutput
    /\ pl_pc' = "in_call"
    /\ UNCHANGED <<cuda, load_ok, sq_exc, cuda_checks, model_loads, gen_calls,
                   merged_data, limit, pl_i, results, results_file>>
    /\ UNCHANGED <<cr_vars, fn_vars>>

(* a return that puts the new record in front of the list *)
Main_ReturnInFront ==
    /\ pl_pc = "in_call"
    /\ sq_pc = "returned"
    /\ results' = <<[query |-> sq_query, summary |-> sq_ret]>> \o results
    /\ pl_i' = pl_i + 1
    /\ pl_pc' = "loop"
    /\ sq_pc' = "idle"
    /\ UNCHANGED <<sq_query, sq_corpus, sq_claims, cuda, load_ok, sq_ret, sq_exc,
                   sq_out, cuda_checks, model_loads, gen_calls,
                   merged_data, limit, results_file>>
    /\ UNCHANGED <<cr_vars, fn_vars>>

(* lines 135-141: summarize_query returned *)
Main_Return ==
    /\ pl_pc = "in_call"
    /\ sq_pc = "returned"
    /\ results' = Append(results, [query |-> sq_query, summary |-> sq_ret])
    /\ pl_i' = pl_i + 1
    /\ pl_pc' = "loop"
    /\ sq_pc' = "idle"
    /\ UNCHANGED <<sq_query, sq_corpus, sq_claims, cuda, load_ok, sq_ret, sq_exc,
                   sq_out, cuda_checks, model_loads, gen_calls,
                   merged_data, limit, results_file>>
    /\ UNCHANGED <<cr_vars, fn_vars>>

(* line 135: summarize_query raised; nothing in main catches it *)
Main_Abort ==
    /\ pl_pc = "in_call"
    /\ sq_pc = "raised"
    /\ pl_pc' = "aborted"
    /\ UNCHANGED <<sq_vars, merged_data, limit, pl_i, results, results_file, cr_vars,
                   fn_vars>>

(* lines 143-147: the loop is over, json.dump(results) *)
Main_Save ==
    /\ pl_pc = "loop"
    /\ pl_i = Len(merged_data)
    /\ results_file' = [written |-> TRUE, content |-> results]
    /\ pl_pc' = "done"
    /\ UNCHANGED <<sq_vars, merged_data, limit, pl_i, results, cr_vars, fn_vars>>

----------------------------------------------------------------------------
(* retrieve_local_docs  (src/retrieval/tfidf_retrieval.py) *)

(* a document of the evidence list; "absent" stands for a dict without the
   content key *)
Contents == {"", "solar power"}
EvidenceDoc(n, c) ==
    IF c = "absent" THEN [id |-> n] ELSE [id |-> n, content |-> c]
EvidenceLists ==
    UNION {{[i \in 1..n |-> EvidenceDoc(i, f[i])] :
                f \in [1..n -> Contents \cup {"absent"}]} : n \in 0..MaxEvidence}
KValues == (-1)..(MaxEvidence + 1)

(* the values cosine_similarity can take, as ordered levels of [0, 1] *)
Similarities == {0, 1, 2}

(* line 20: doc.get("content", "") for each document *)
DocContents(evidence) ==
    [i \in DOMAIN evidence |->
        IF "content" \in DOMAIN evidence[i] THEN evidence[i].content ELSE ""]

(* lines 23-26: the terms TfidfVectorizer learns from the contents (words of
   two or more characters); fit_transform raises ValueError("empty
   vocabulary") when there is none *)
Terms(content) == IF content = "solar power" THEN {"solar", "power"} ELSE {}
Vocabulary(doc_contents) == UNION {Terms(doc_contents[i]) : i \in DOMAIN doc_contents}

(* np.argsort(similarities): an index order with ascending values; the order
   inside a group of equal values is whatever the sort produces *)
ArgSorts(sims) ==
    {p \in [DOMAIN sims -> DOMAIN sims] :
        /\ \A i, j \in DOMAIN sims : i # j => p[i] # p[j]
        /\ \A i, j \in DOMAIN sims : i < j => sims[p[i]] <= sims[p[j]]}

(* Python s[n:] *)
SliceFrom(s, n) ==
    IF n >= 0 THEN SubSeq(s, Min(n, Len(s)) + 1, Len(s))
    ELSE SubSeq(s, Max(0, Len(s) + n) + 1, Len(s))

(* Python s[::-1] *)
Reverse(s) == [i \in 1..Len(s) |-> s[Len(s) + 1 - i]]

(* line 36: [-k:][::-1] *)
TopK(order, k) == Reverse(SliceFrom(order, 0 - k))

(* evidence[idx] used without copying it *)
Alias(heap, ref) == [heap |-> heap, ref |-> ref]

(* line 43: evidence[idx].copy(), a new dict with the same items *)
Copy(heap, ref) == [heap |-> Append(heap, heap[ref]), ref |-> Len(heap) + 1]

(* lines 40-45: the loop over top_k_indices, from position j *)
RECURSIVE ScoreDocs(_, _, _, _, _)
ScoreDocs(heap, refs, indices, sims, j) ==
    IF j > Len(indices) THEN [heap |-> heap, refs |-> refs]
    ELSE LET idx == indices[j]
             c == Copy(heap, idx)
             scored == [c.heap EXCEPT ![c.ref] = ("score" :> sims[idx]) @@ @]
         IN ScoreDocs(scored, Append(refs, c.ref), indices, sims, j + 1)

(* lines 16-31: the empty-list return, or vectorization and similarities *)
RT_Vectorize ==
    /\ rt_pc = "call"
    /\ IF rt_evidence = <<>>
       THEN /\ top_docs' = <<>>
            /\ rt_pc' = "returned"
            /\ UNCHANGED <<similarities, fit_calls>>
       ELSE /\ fit_calls' = fit_calls + 1
            /\ IF Vocabulary(DocContents(rt_evidence)) = {}
               THEN /\ rt_pc' = "raised"
                    /\ UNCHANGED <<similarities, top_docs>>
               ELSE /\ \E sims \in [DOMAIN rt_evidence -> Similarities] :
                          similarities' = sims
                    /\ rt_pc' = "scored"
                    /\ UNCHANGED top_docs
    /\ UNCHANGED <<rt_evidence, rt_k, rt_heap, top_k_indices>>
    /\ UNCHANGED <<cr_vars, sq_vars, pl_vars, mg_vars, mt_vars, pw_vars>>

(* lines 36-47: rank, copy and score the selected documents, return *)
RT_Rank ==
    /\ rt_pc = "scored"
    /\ \E order \in ArgSorts(similarities) :
         LET indices == TopK(order, rt_k)
             out == ScoreDocs(rt_heap, <<>>, indices, similarities, 1)
         IN /\ top_k_indices' = indices
            /\ rt_heap' = out.heap
            /\ top_docs' = out.refs
    /\ rt_pc' = "returned"
    /\ UNCHANGED <<rt_evidence, rt_k, similarities, fit_calls>>
    /\ UNCHANGED <<cr_vars, sq_vars, pl_vars, mg_vars, mt_vars, pw_vars>>

----------------------------------------------------------------------------
(* merge_docs_lists  (src/summarization/merge.py) *)

LocalIds == {IntId(1), StrId("u1")}
LocalDoc(id) == [id |-> id, content |-> "local"]
LocalDocLists == SeqsUpTo({LocalDoc(id) : id \in LocalIds}, MaxLocal)

(* a classified web document; "absent" stands for a dict without the
   relevance key *)
Urls == {StrId("u1"), StrId("u2")}
Labels == {"R", "NR", "r"}
ClassifiedDoc(url, label) ==
    IF label = "absent"
    THEN [id |-> IntId(0), url |-> url, content |-> "web"]
    ELSE [id |-> IntId(0), url |-> url, content |-> "web", relevance |-> label]
ClassifiedDocLists ==
    SeqsUpTo({ClassifiedDoc(u, l) : u \in Urls, l \in Labels \cup {"absent"}},
             MaxWeb)

(* every document that is not labelled "NR" *)
IsNotIrrelevant(doc) == ~("relevance" \in DOMAIN doc /\ doc.relevance = "NR")

(* line 37: doc.get("relevance") == "R" *)
IsRelevant(doc) == "relevance" \in DOMAIN doc /\ doc.relevance = "R"

(* line 38: {"id": doc["url"], "content": doc["content"]} *)
Transform(doc) == [id |-> doc.url, content |-> doc.content]

(* lines 37-39 *)
MergeDocsLists(local_docs, web_docs_arg) ==
    LET relevant_web == SelectSeq(web_docs_arg, IsRelevant)
        transformed_web == [i \in DOMAIN relevant_web |-> Transform(relevant_web[i])]
    IN local_docs \o transformed_web

(* lines 33-40: one call *)
MG_Call ==
    /\ mg_pc = "call"
    /\ mg_ret' = MergeDocsLists(mg_local, mg_web)
    /\ mg_pc' = "returned"
    /\ UNCHANGED <<mg_local, mg_web>>
    /\ UNCHANGED <<cr_vars, sq_vars, pl_vars, rt_vars, mt_vars, pw_vars>>

----------------------------------------------------------------------------
(* recall_at_k, cover_at_k  (src/evaluation/local_metrics.py) *)

IdPool == {5, 7, 12, 99}
RetrievedLists == SeqsUpTo(IdPool, MaxRetrieved)
GoldLists == SeqsUpTo(IdPool, MaxGold)
MetricKs == (-1)..(MaxRetrieved + 1)

(* a float quotient of two lengths, kept exact as a fraction in lowest terms *)
RECURSIVE GCD(_, _)
GCD(a, b) == IF b = 0 THEN a ELSE GCD(b, a % b)
Quotient(a, b) == [num |-> a \div GCD(a, b), den |-> b \div GCD(a, b)]

(* 0.0 *)
Zero == [num |-> 0, den |-> 1]

(* the recall of the whole list, whatever k *)
RecallUntruncated(retrieved, gold, k) ==
    LET retrieved_set == Range(retrieved)
        gold_set == Range(gold)
        relevant_retrieved == retrieved_set \cap gold_set
    IN IF Cardinality(gold_set) = 0 THEN Zero
       ELSE Quotient(Cardinality(relevant_retrieved), Cardinality(gold_set))

(* lines 1-16 *)
RecallAtK(retrieved, gold, k) ==
    LET retrieved_top_k == SliceTo(retrieved, k)
        retrieved_set == Range(retrieved_top_k)
        gold_set == Range(gold)
        relevant_retrieved == retrieved_set \cap gold_set
    IN IF Cardinality(gold_set) = 0 THEN Zero
       ELSE Quotient(Cardinality(relevant_retrieved), Cardinality(gold_set))

(* intersection over union *)
CoverOverUnion(covered_perspectives, gold_perspectives) ==
    LET covered_set == Range(covered_perspectives)
        gold_set == Range(gold_perspectives)
    IN IF Cardinality(gold_set) = 0 THEN Zero
       ELSE Quotient(Cardinality(covered_set \cap gold_set),
                     Cardinality(covered_set \cup gold_set))

(* lines 19-33 *)
CoverAtK(covered_perspectives, gold_perspectives) ==
    LET covered_set == Range(covered_perspectives)
        gold_set == Range(gold_perspectives)
        relevant_covered == covered_set \cap gold_set
    IN IF Cardinality(gold_set) = 0 THEN Zero
       ELSE Quotient(Cardinality(relevant_covered), Cardinality(gold_set))

(* test_metrics.py lines 65-67: both metrics of one query, on the same ids *)
MT_Evaluate ==
    /\ mt_pc = "call"
    /\ mt_recall' = RecallAtK(retrieved_ids, gold_ids, mt_k)
    /\ mt_cover' = CoverAtK(retrieved_ids, gold_ids)
    /\ mt_pc' = "returned"
    /\ UNCHANGED <<retrieved_ids, gold_ids, mt_k>>
    /\ UNCHANGED <<cr_vars, sq_vars, pl_vars, rt_vars, mg_vars, pw_vars>>

----------------------------------------------------------------------------
(* process_web_file  (src/validation/run_relevance_check.py) *)

(* the i-th document of a results list: ids 0, 1, "0", 2, 3, "1", ... *)
ResultDoc(i) ==
    LET id == IF i % 3 = 0 THEN StrId(IntToStr((i \div 3) - 1))
              ELSE IntId(i - 1 - (i \div 3))
    IN [id |-> id, content |-> "text", url |-> "u" \o IntToStr(i)]

(* an item of the input file, with n documents; "bare" has no web_docs key *)
WebItem(n) == [query |-> "q1", web_docs |-> [results |-> [i \in 1..n |-> ResultDoc(i)]]]
BareItem == [query |-> "q1"]
WebItems == {WebItem(n) : n \in 0..MaxResults} \cup {BareItem}
WebFiles == SeqsUpTo(WebItems, MaxQueries)

(* lines 51-52: item.get("web_docs", {}).get("results", []) *)
ResultsOf(item) ==
    IF "web_docs" \in DOMAIN item
    THEN IF "results" \in DOMAIN item.web_docs THEN item.web_docs.results ELSE <<>>
    ELSE <<>>

(* the maps the attempts can return on answers of one kind *)
AttemptResults(docs, kind, values) ==
    {TryAttempt(docs, [k |-> kind, v |-> x]).result :
        x \in {y \in values : TryAttempt(docs, [k |-> kind, v |-> y]).ok}}

(* line 58: the ways a call of check_relevance can end: the empty map for no
   document, an exception without credential or client, the result of an
   attempt that succeeded on an object, an array or a string, or all-"NR"
   after max_retries failed attempts *)
CheckRelevance(docs, key, client) ==
    IF docs = <<>> THEN {[raised |-> FALSE, map |-> <<>>]}
    ELSE IF ~key \/ ~client THEN {[raised |-> TRUE, map |-> <<>>]}
    ELSE {[raised |-> FALSE, map |-> result] :
              result \in AttemptResults(docs, "obj", JsonObjects)
                          \cup AttemptResults(docs, "arr", JsonArrays)
                          \cup AttemptResults(docs, "str", JsonStrings)
                          \cup {AllNR(docs)}}

(* a lookup by the id itself, not by its string form *)
AddRelevanceById(doc, classifications) ==
    ("relevance" :>
        IF doc.id.t = "str" /\ doc.id.s \in DOMAIN classifications
        THEN classifications[doc.id.s] ELSE "NR") @@ doc

(* lines 67-68: doc['relevance'] = classifications.get(str(doc['id']), "NR") *)
AddRelevance(doc, classifications) ==
    ("relevance" :>
        IF Str(doc.id) \in DOMAIN classifications
        THEN classifications[Str(doc.id)] ELSE "NR") @@ doc

(* lines 66-68 on the item that owns the results list *)
Classified(item, classifications) ==
    IF ResultsOf(item) = <<>> THEN item
    ELSE [item EXCEPT !.web_docs.results =
             [j \in DOMAIN @ |-> AddRelevance(@[j], classifications)]]

(* `if limit` *)
Truthy(lim) == lim.set /\ lim.n # 0

(* lines 36-47: load, output_data = [], queries_to_process *)
PW_Load ==
    /\ pw_pc = "start"
    /\ pw_data' = IF Truthy(pw_limit) THEN SliceTo(pw_file, pw_limit.n) ELSE pw_file
    /\ output_data' = <<>>
    /\ pw_pc' = "loop"
    /\ UNCHANGED <<pw_file, pw_limit, dry_run, pw_maps, output_file>>
    /\ UNCHANGED <<cr_vars, sq_vars, pl_vars, rt_vars, mg_vars, mt_vars>>

(* lines 49-71: one iteration; an exception of check_relevance is not caught *)
PW_Query ==
    /\ pw_pc = "loop"
    /\ Len(output_data) < Len(pw_data)
    /\ LET i == Len(output_data) + 1
           item == pw_data[i]
       IN \E out \in CheckRelevance(ResultsOf(item), api_key, client_ok) :
            IF out.raised
            THEN /\ pw_pc' = "aborted"
                 /\ UNCHANGED <<pw_data, output_data, pw_maps>>
            ELSE /\ pw_data' = [pw_data EXCEPT ![i] = Classified(item, out.map)]
                 /\ output_data' = Append(output_data, Classified(item, out.map))
                 /\ pw_maps' = Append(pw_maps, out.map)
                 /\ pw_pc' = "loop"
    /\ UNCHANGED <<pw_file, pw_limit, dry_run, output_file>>
    /\ UNCHANGED <<cr_vars, sq_vars, pl_vars, rt_vars, mg_vars, mt_vars>>

(* lines 73-84: the dry-run return, or the dump of output_data *)
PW_Finish ==
    /\ pw_pc = "loop"
    /\ Len(output_data) = Len(pw_data)
    /\ output_file' = IF dry_run THEN output_file
                      ELSE [written |-> TRUE, content |-> output_data]
    /\ pw_pc' = "done"
    /\ UNCHANGED <<pw_file, pw_limit, dry_run, pw_data, output_data, pw_maps>>
    /\ UNCHANGED <<cr_vars, sq_vars, pl_vars, rt_vars, mg_vars, mt_vars>>

----------------------------------------------------------------------------
(* Specifications *)

(* one call of check_relevance on arbitrary arguments *)
CRInit ==
    /\ web_docs \in WebDocLists
    /\ api_key \in BOOLEAN
    /\ client_ok \in BOOLEAN
    /\ cr_pc = "call"
    /\ attempt = 0 /\ oracle_calls = 0
    /\ cr_result = <<>> /\ cr_log = <<>> /\ cr_parsed = <<>>
    /\ sq_query = "" /\ sq_corpus = <<>> /\ sq_claims = <<>>
    /\ cuda = TRUE /\ load_ok = TRUE /\ sq_pc = "idle"
    /\ sq_ret = <<>> /\ sq_exc = "" /\ sq_out = NoOutput
    /\ cuda_checks = 0 /\ model_loads = 0 /\ gen_calls = 0
    /\ merged_data = <<>> /\ limit = NoLimit /\ pl_pc = "none" /\ pl_i = 0
    /\ results = <<>> /\ results_file = [written |-> FALSE, content |-> <<>>]
    /\ rt_evidence = <<>> /\ rt_k = 0 /\ rt_pc = "none" /\ rt_heap = <<>>
    /\ similarities = <<>> /\ top_k_indices = <<>> /\ top_docs = <<>>
    /\ fit_calls = 0
    /\ mg_local = <<>> /\ mg_web = <<>> /\ mg_pc = "none" /\ mg_ret = <<>>
    /\ retrieved_ids = <<>> /\ gold_ids = <<>> /\ mt_k = 0 /\ mt_pc = "none"
    /\ mt_recall = <<>> /\ mt_cover = <<>>
    /\ pw_file = <<>> /\ pw_limit = NoLimit /\ dry_run = FALSE /\ pw_pc = "none"
    /\ pw_data = <<>> /\ output_data = <<>> /\ pw_maps = <<>>
    /\ output_file = [written |-> FALSE, content |-> <<>>]

CRNext == CR_Entry \/ CR_Oracle

SpecCR == CRInit /\ [][CRNext]_vars

(* one call of summarize_query on arbitrary arguments *)
SQInit ==
    /\ sq_query \in {"q1", "q2"}
    /\ sq_corpus \in Corpora
    /\ sq_claims \in ClaimLists
    /\ cuda \in BOOLEAN
    /\ load_ok \in BOOLEAN
    /\ sq_pc = "call"
    /\ sq_ret = <<>> /\ sq_exc = "" /\ sq_out = NoOutput
    /\ cuda_checks = 0 /\ model_loads = 0 /\ gen_calls = 0
    /\ web_docs = <<>> /\ api_key = TRUE /\ client_ok = TRUE /\ cr_pc = "idle"
    /\ attempt = 0 /\ oracle_calls = 0
    /\ cr_result = <<>> /\ cr_log = <<>> /\ cr_parsed = <<>>
    /\ merged_data = <<>> /\ limit = NoLimit /\ pl_pc = "none" /\ pl_i = 0
    /\ results = <<>> /\ results_file = [written |-> FALSE, content |-> <<>>]
    /\ rt_evidence = <<>> /\ rt_k = 0 /\ rt_pc = "none" /\ rt_heap = <<>>
    /\ similarities = <<>> /\ top_k_indices = <<>> /\ top_docs = <<>>
    /\ fit_calls = 0
    /\ mg_local = <<>> /\ mg_web = <<>> /\ mg_pc = "none" /\ mg_ret = <<>>
    /\ retrieved_ids = <<>> /\ gold_ids = <<>> /\ mt_k = 0 /\ mt_pc = "none"
    /\ mt_recall = <<>> /\ mt_cover = <<>>
    /\ pw_file = <<>> /\ pw_limit = NoLimit /\ dry_run = FALSE /\ pw_pc = "none"
    /\ pw_data = <<>> /\ output_data = <<>> /\ pw_maps = <<>>
    /\ output_file = [written |-> FALSE, content |-> <<>>]

SQNext == SQ_Entry \/ SQ_Generator

SpecSum == SQInit /\ [][SQNext]_vars

(* one run of the pipeline *)
PLInit ==
    /\ merged_data \in SeqsUpTo(PipeEntries, MaxEntries)
    /\ limit \in {NoLimit} \cup {Limit(n) : n \in (-1)..MaxEntries}
    /\ pl_pc = "start" /\ pl_i = 0
    /\ results = <<>> /\ results_file = [written |-> FALSE, content |-> <<>>]
    /\ sq_query = "" /\ sq_corpus = <<>> /\ sq_claims = <<>>
    /\ cuda \in BOOLEAN
    /\ load_ok \in BOOLEAN
    /\ sq_pc = "idle"
    /\ sq_ret = <<>> /\ sq_exc = "" /\ sq_out = NoOutput
    /\ cuda_checks = 0 /\ model_loads = 0 /\ gen_calls = 0
    /\ web_docs = <<>> /\ api_key = TRUE /\ client_ok = TRUE /\ cr_pc = "idle"
    /\ attempt = 0 /\ oracle_calls = 0
    /\ cr_result = <<>> /\ cr_log = <<>> /\ cr_parsed = <<>>
    /\ rt_evidence = <<>> /\ rt_k = 0 /\ rt_pc = "none" /\ rt_heap = <<>>
    /\ similarities = <<>> /\ top_k_indices = <<>> /\ top_docs = <<>>
    /\ fit_calls = 0
    /\ mg_local = <<>> /\ mg_web = <<>> /\ mg_pc = "none" /\ mg_ret = <<>>
    /\ retrieved_ids = <<>> /\ gold_ids = <<>> /\ mt_k = 0 /\ mt_pc = "none"
    /\ mt_recall = <<>> /\ mt_cover = <<>>
    /\ pw_file = <<>> /\ pw_limit = NoLimit /\ dry_run = FALSE /\ pw_pc = "none"
    /\ pw_data = <<>> /\ output_data = <<>> /\ pw_maps = <<>>
    /\ output_file = [written |-> FALSE, content |-> <<>>]

PLNext ==
    \/ Main_Load
    \/ Main_Call
    \/ SQ_Entry
    \/ SQ_PipeGenerator
    \/ Main_Return
    \/ Main_Abort
    \/ Main_Save

SpecPipe == PLInit /\ [][PLNext]_vars

(* one call of retrieve_local_docs on arbitrary arguments *)
RTInit ==
    /\ rt_evidence \in EvidenceLists
    /\ rt_k \in KValues
    /\ rt_pc = "call"
    /\ rt_heap = rt_evidence
    /\ similarities = <<>> /\ top_k_indices = <<>> /\ top_docs = <<>>
    /\ fit_calls = 0
    /\ web_docs = <<>> /\ api_key = TRUE /\ client_ok = TRUE /\ cr_pc = "idle"
    /\ attempt = 0 /\ oracle_calls = 0
    /\ cr_result = <<>> /\ cr_log = <<>> /\ cr_parsed = <<>>
    /\ sq_query = "" /\ sq_corpus = <<>> /\ sq_claims = <<>>
    /\ cuda = TRUE /\ load_ok = TRUE /\ sq_pc = "idle"
    /\ sq_ret = <<>> /\ sq_exc = "" /\ sq_out = NoOutput
    /\ cuda_checks = 0 /\ model_loads = 0 /\ gen_calls = 0
    /\ merged_data = <<>> /\ limit = NoLimit /\ pl_pc = "none" /\ pl_i = 0
    /\ results = <<>> /\ results_file = [written |-> FALSE, content |-> <<>>]
    /\ mg_local = <<>> /\ mg_web = <<>> /\ mg_pc = "none" /\ mg_ret = <<>>
    /\ retrieved_ids = <<>> /\ gold_ids = <<>> /\ mt_k = 0 /\ mt_pc = "none"
    /\ mt_recall = <<>> /\ mt_cover = <<>>
    /\ pw_file = <<>> /\ pw_limit = NoLimit /\ dry_run = FALSE /\ pw_pc = "none"
    /\ pw_data = <<>> /\ output_data = <<>> /\ pw_maps = <<>>
    /\ output_file = [written |-> FALSE, content |-> <<>>]

RTNext == RT_Vectorize \/ RT_Rank

SpecRet == RTInit /\ [][RTNext]_vars

(* one call of merge_docs_lists on arbitrary arguments *)
MGInit ==
    /\ mg_local \in LocalDocLists
    /\ mg_web \in ClassifiedDocLists
    /\ mg_pc = "call"
    /\ mg_ret = <<>>
    /\ web_docs = <<>> /\ api_key = TRUE /\ client_ok = TRUE /\ cr_pc = "idle"
    /\ attempt = 0 /\ oracle_calls = 0
    /\ cr_result = <<>> /\ cr_log = <<>> /\ cr_parsed = <<>>
    /\ sq_query = "" /\ sq_corpus = <<>> /\ sq_claims = <<>>
    /\ cuda = TRUE /\ load_ok = TRUE /\ sq_pc = "idle"
    /\ sq_ret = <<>> /\ sq_exc = "" /\ sq_out = NoOutput
    /\ cuda_checks = 0 /\ model_loads = 0 /\ gen_calls = 0
    /\ merged_data = <<>> /\ limit = NoLimit /\ pl_pc = "none" /\ pl_i = 0
    /\ results = <<>> /\ results_file = [written |-> FALSE, content |-> <<>>]
    /\ rt_evidence = <<>> /\ rt_k = 0 /\ rt_pc = "none" /\ rt_heap = <<>>
    /\ similarities = <<>> /\ top_k_indices = <<>> /\ top_docs = <<>>
    /\ fit_calls = 0
    /\ retrieved_ids = <<>> /\ gold_ids = <<>> /\ mt_k = 0 /\ mt_pc = "none"
    /\ mt_recall = <<>> /\ mt_cover = <<>>
    /\ pw_file = <<>> /\ pw_limit = NoLimit /\ dry_run = FALSE /\ pw_pc = "none"
    /\ pw_data = <<>> /\ output_data = <<>> /\ pw_maps = <<>>
    /\ output_file = [written |-> FALSE, content |-> <<>>]

MGNext == MG_Call

SpecMerge == MGInit /\ [][MGNext]_vars

(* one evaluation of both metrics on arbitrary arguments *)
MTInit ==
    /\ retrieved_ids \in RetrievedLists
    /\ gold_ids \in GoldLists
    /\ mt_k \in MetricKs
    /\ mt_pc = "call"
    /\ mt_recall = <<>> /\ mt_cover = <<>>
    /\ web_docs = <<>> /\ api_key = TRUE /\ client_ok = TRUE /\ cr_pc = "idle"
    /\ attempt = 0 /\ oracle_calls = 0
    /\ cr_result = <<>> /\ cr_log = <<>> /\ cr_parsed = <<>>
    /\ sq_query = "" /\ sq_corpus = <<>> /\ sq_claims = <<>>
    /\ cuda = TRUE /\ load_ok = TRUE /\ sq_pc = "idle"
    /\ sq_ret = <<>> /\ sq_exc = "" /\ sq_out = NoOutput
    /\ cuda_checks = 0 /\ model_loads = 0 /\ gen_calls = 0
    /\ merged_data = <<>> /\ limit = NoLimit /\ pl_pc = "none" /\ pl_i = 0
    /\ results = <<>> /\ results_file = [written |-> FALSE, content |-> <<>>]
    /\ rt_evidence = <<>> /\ rt_k = 0 /\ rt_pc = "none" /\ rt_heap = <<>>
    /\ similarities = <<>> /\ top_k_indices = <<>> /\ top_docs = <<>>
    /\ fit_calls = 0
    /\ mg_local = <<>> /\ mg_web = <<>> /\ mg_pc = "none" /\ mg_ret = <<>>
    /\ pw_file = <<>> /\ pw_limit = NoLimit /\ dry_run = FALSE /\ pw_pc = "none"
    /\ pw_data = <<>> /\ output_data = <<>> /\ pw_maps = <<>>
    /\ output_file = [written |-> FALSE, content |-> <<>>]

MTNext == MT_Evaluate

SpecMetrics == MTInit /\ [][MTNext]_vars

(* one call of process_web_file on an arbitrary input file *)
PWInit ==
    /\ pw_file \in WebFiles
    /\ pw_limit \in {NoLimit} \cup {Limit(n) : n \in (-1)..MaxQueries}
    /\ dry_run \in BOOLEAN
    /\ api_key \in BOOLEAN
    /\ client_ok \in BOOLEAN
    /\ pw_pc = "start"
    /\ pw_data = <<>> /\ output_data = <<>> /\ pw_maps = <<>>
    /\ output_file = [written |-> FALSE, content |-> <<>>]
    /\ web_docs = <<>> /\ cr_pc = "idle"
    /\ attempt = 0 /\ oracle_calls = 0
    /\ cr_result = <<>> /\ cr_log = <<>> /\ cr_parsed = <<>>
    /\ sq_query = "" /\ sq_corpus = <<>> /\ sq_claims = <<>>
    /\ cuda = TRUE /\ load_ok = TRUE /\ sq_pc = "idle"
    /\ sq_ret = <<>> /\ sq_exc = "" /\ sq_out = NoOutput
    /\ cuda_checks = 0 /\ model_loads = 0 /\ gen_calls = 0
    /\ merged_data = <<>> /\ limit = NoLimit /\ pl_pc = "none" /\ pl_i = 0
    /\ results = <<>> /\ results_file = [written |-> FALSE, content |-> <<>>]
    /\ rt_evidence = <<>> /\ rt_k = 0 /\ rt_pc = "none" /\ rt_heap = <<>>
    /\ similarities = <<>> /\ top_k_indices = <<>> /\ top_docs = <<>>
    /\ fit_calls = 0
    /\ mg_local = <<>> /\ mg_web = <<>> /\ mg_pc = "none" /\ mg_ret = <<>>
    /\ retrieved_ids = <<>> /\ gold_ids = <<>> /\ mt_k = 0 /\ mt_pc = "none"
    /\ mt_recall = <<>> /\ mt_cover = <<>>

PWNext == PW_Load \/ PW_Query \/ PW_Finish

SpecWeb == PWInit /\ [][PWNext]_vars

----------------------------------------------------------------------------
(* Properties of check_relevance *)

InputKeys == {Str(web_docs[i].id) : i \in DOMAIN web_docs}

CallEnded == cr_pc \in {"returned", "raised"}

LastAttempt == cr_log[Len(cr_log)]

\* C1: for a non-empty document list, any map returned by check_relevance has
\* exactly the keys str(id) of the input documents, and every value is "R" or
\* "NR", whatever the oracle answered on each attempt.
C1_ReturnedMapIsTotalAndBinary ==
    (cr_pc = "returned" /\ web_docs # <<>>) =>
        /\ DOMAIN cr_result = InputKeys
        /\ \A k \in DOMAIN cr_result : cr_result[k] \in {"R", "NR"}

\* C1 witness: a map returned after a failed attempt, from an object that
\* carries a foreign key and a non-label value, with an "R" in the result.
C1_Witness ==
    /\ cr_pc = "returned" /\ Len(web_docs) = 2
    /\ Len(cr_log) >= 2 /\ LastAttempt.kind = "obj"
    /\ "9" \in DOMAIN cr_parsed
    /\ \E k \in DOMAIN cr_parsed : k \in InputKeys /\ ~IsLabel(cr_parsed[k])
    /\ \E k \in DOMAIN cr_result : cr_result[k] = "R"

\* C2: the oracle is invoked 0 times for an empty list (the empty map is
\* returned), otherwise at least once and at most 3 times per call; a further
\* attempt is made only after a failed one, none after a successful one.
C2_InvocationCount ==
    /\ oracle_calls <= 3
    /\ web_docs = <<>> =>
          /\ oracle_calls = 0
          /\ CallEnded => (cr_pc = "returned" /\ cr_result = <<>>)
    /\ (web_docs # <<>> /\ CallEnded) => oracle_calls >= 1
    /\ \A i \in 1..(Len(cr_log) - 1) : ~cr_log[i].ok

\* C3: when all 3 attempts fail by raising or by unparsable text, the call
\* returns the map assigning "NR" to every input id and does not raise.
C3_AllAttemptsFailGivesAllNR ==
    (/\ Len(cr_log) = 3
     /\ \A i \in 1..3 : cr_log[i].kind \in {"raise", "text"}) =>
        /\ cr_pc = "returned"
        /\ DOMAIN cr_result = InputKeys
        /\ \A k \in InputKeys : cr_result[k] = "NR"

\* C3 witness: three failed attempts, a raise among them and unparsable text
\* among them, on a two-document list.
C3_Witness ==
    /\ Len(cr_log) = 3 /\ Len(web_docs) = 2
    /\ \A i \in 1..3 : cr_log[i].kind \in {"raise", "text"}
    /\ \E i \in 1..3 : cr_log[i].kind = "raise"
    /\ \E i \in 1..3 : cr_log[i].kind = "text"
    /\ cr_pc = "returned"

\* C4: a call of check_relevance never ends by propagating an exception,
\* whatever the credential, the client construction and the oracle do.
C4_NeverRaises == cr_pc # "raised"

\* C5: when the returning attempt's answer is a JSON object P, the result maps
\* each input id d to P[str(d)] if that is exactly "R" or "NR", and to "NR" if
\* the value is anything else or str(d) is not a key of P; keys of P that are
\* not input ids do not appear.
C5_ResultFollowsParsedObject ==
    (cr_pc = "returned" /\ cr_log # <<>> /\ LastAttempt.kind = "obj") =>
        /\ \A i \in DOMAIN web_docs :
              LET d == Str(web_docs[i].id) IN
                 /\ d \in DOMAIN cr_result
                 /\ cr_result[d] =
                       IF d \notin DOMAIN cr_parsed THEN "NR"
                       ELSE IF cr_parsed[d] = JStr("R") THEN "R"
                       ELSE IF cr_parsed[d] = JStr("NR") THEN "NR"
                       ELSE "NR"
        /\ \A k \in DOMAIN cr_parsed : k \notin InputKeys => k \notin DOMAIN cr_result

\* C5 witness: ids 0 and 1 answered with {"0": "R", "9": "yes"}: a value
\* passed through, a missing id defaulted, a foreign key dropped.
C5_Witness ==
    /\ cr_pc = "returned"
    /\ web_docs = <<WebDoc(IntId(0)), WebDoc(IntId(1))>>
    /\ cr_log # <<>> /\ LastAttempt.kind = "obj"
    /\ DOMAIN cr_parsed = {"0", "9"}
    /\ cr_parsed["0"] = JStr("R") /\ cr_parsed["9"] = JStr("yes")
    /\ cr_result = [k \in {"0", "1"} |-> IF k = "0" THEN "R" ELSE "NR"]

----------------------------------------------------------------------------
(* Properties of summarize_query *)

ShortCircuits(corpus, claims) == corpus = <<>> \/ Len(claims) < 2

(* the delimited blocks of a text, by counting fences: with n fences there are
   n \div 2 blocks, the k-th between fence 2k-1 and fence 2k *)
FencesUpTo(text, i) == Cardinality({j \in 1..i : text[j] = Fence})
NthFence(text, k) ==
    CHOOSE i \in 1..Len(text) : text[i] = Fence /\ FencesUpTo(text, i) = k
HasBlock(text) == FencesUpTo(text, Len(text)) >= 2
LastBlockOf(text) ==
    LET m == FencesUpTo(text, Len(text)) \div 2
    IN SubSeq(text, NthFence(text, 2 * m - 1) + 1, NthFence(text, 2 * m) - 1)
IsJsonText(block) ==
    \E doc \in JsonDocs : SelectSeq(block, LAMBDA c : c # Space) = <<doc>>
LastBlockParses(text) == HasBlock(text) /\ IsJsonText(LastBlockOf(text))

Generated == sq_pc = "returned" /\ gen_calls > 0 /\ ~sq_out.raises

FirstIds(corpus, n) ==
    [i \in 1..(IF Len(corpus) < n THEN Len(corpus) ELSE n) |-> corpus[i].id]

\* C6: with an empty merged_corpus or fewer than 2 claims, summarize_query
\* returns exactly {query: q, perspectives: []} and makes no generator call,
\* no accelerator check and no model load, whatever the environment.
C6_ShortCircuit ==
    (ShortCircuits(sq_corpus, sq_claims) /\ sq_pc # "call") =>
        /\ sq_pc = "returned"
        /\ sq_ret = [query |-> sq_query, perspectives |-> <<>>]
        /\ gen_calls = 0 /\ cuda_checks = 0 /\ model_loads = 0

\* C6 witness: a single claim with a non-empty corpus and no accelerator.
C6_Witness ==
    /\ sq_pc = "returned" /\ ~cuda /\ ~load_ok
    /\ Len(sq_claims) = 1 /\ sq_corpus # <<>>

\* C7: whenever the last delimited block of the generated text parses as JSON,
\* the returned record has exactly 2 perspectives whose claims are claims[0]
\* and claims[1] in that order.
C7_ParsedGivesTwoAlignedPerspectives ==
    (Generated /\ LastBlockParses(sq_out.text)) =>
        /\ "perspectives" \in DOMAIN sq_ret
        /\ Len(sq_ret.perspectives) = 2
        /\ sq_ret.perspectives[1].claim = sq_claims[1]
        /\ sq_ret.perspectives[2].claim = sq_claims[2]

\* C8: when the generated text has no delimited block, or its last block does
\* not parse as JSON, the record has exactly 2 perspectives, perspective i with
\* claims[i], the raw generated text, and the ids of the first 3 documents of
\* merged_corpus in order (all of them if there are fewer).
C8_FallbackRecord ==
    (Generated /\ ~LastBlockParses(sq_out.text)) =>
        /\ "perspectives" \in DOMAIN sq_ret
        /\ sq_ret.perspectives =
              <<Perspective(sq_claims[1], Join(sq_out.text), FirstIds(sq_corpus, 3)),
                Perspective(sq_claims[2], Join(sq_out.text), FirstIds(sq_corpus, 3))>>

\* C8 witness: two blocks, the first is JSON and the last is not, on a corpus
\* of more than 3 documents.
C8_Witness ==
    /\ Generated
    /\ sq_out.text = <<Fence, JDocAB, Fence, Fence, Junk, Fence>>
    /\ Len(sq_corpus) = 4
    /\ Len(sq_ret.perspectives[1].evidence_docs) = 3

\* C9: when tokenize / generate / decode raises, summarize_query returns the
\* input query and exactly 2 perspectives, perspective i with claims[i], a
\* perspective string embedding the error message, and empty evidence_docs;
\* no exception leaves the call.
C9_GeneratorErrorRecord ==
    (sq_pc # "generate" /\ gen_calls > 0 /\ sq_out.raises) =>
        /\ sq_pc = "returned"
        /\ sq_exc = ""
        /\ sq_ret =
              [query |-> sq_query,
               perspectives |->
                 <<Perspective(sq_claims[1],
                       "Could not generate perspective due to error: " \o sq_out.msg, <<>>),
                   Perspective(sq_claims[2],
                       "Could not generate perspective due to error: " \o sq_out.msg, <<>>)>>]

\* C9 witness: the generator raised on a call with 3 claims.
C9_Witness ==
    /\ sq_pc = "returned" /\ gen_calls = 1 /\ sq_out.raises
    /\ sq_out.msg = "CUDA out of memory"
    /\ Len(sq_claims) = 3 /\ cuda

\* C17 uses the JSON value of the last delimited block of a text
LastBlockValue(text) ==
    JsonValue(SelectSeq(LastBlockOf(text), LAMBDA c : c # Space)[1])

\* C17 (as stated): every returned record carries the input query, and
\* whenever the last delimited block parses as JSON the record is the parsed
\* structure with query overwritten or attached, whatever the JSON value.
C17_ParsedStructureWhateverValue ==
    sq_pc = "returned" =>
        /\ sq_ret.query = sq_query
        /\ (Generated /\ LastBlockParses(sq_out.text)) =>
              sq_ret = ("query" :> sq_query) @@ LastBlockValue(sq_out.text).v

\* C17 (amended): every returned record carries the input query on every
\* path; when the last delimited block parses as a JSON object the record is
\* that object with query overwritten or attached; when it parses as a JSON
\* value that is not an object, the record is the error record of the
\* generator-error path, carrying the TypeError message.
C17_QueryOnEveryPath ==
    sq_pc = "returned" =>
        /\ sq_ret.query = sq_query
        /\ (Generated /\ LastBlockParses(sq_out.text)) =>
              LET parsed == LastBlockValue(sq_out.text) IN
              IF parsed.t = "dict"
              THEN /\ DOMAIN sq_ret = DOMAIN parsed.v \cup {"query"}
                   /\ \A f \in DOMAIN parsed.v \ {"query"} : sq_ret[f] = parsed.v[f]
              ELSE /\ DOMAIN sq_ret = {"query", "perspectives"}
                   /\ Len(sq_ret.perspectives) = 2
                   /\ \A i \in 1..2 :
                         sq_ret.perspectives[i] =
                            Perspective(sq_claims[i],
                               "Could not generate perspective due to error: "
                                  \o "list indices must be integers or slices, not str",
                               <<>>)

\* C17 witness: the last block is a JSON object that carries another query,
\* and the returned record carries the input query.
C17_Witness ==
    /\ Generated /\ LastBlockParses(sq_out.text)
    /\ LastBlockValue(sq_out.text).t = "dict"
    /\ "query" \in DOMAIN LastBlockValue(sq_out.text).v
    /\ LastBlockValue(sq_out.text).v.query # sq_query
    /\ sq_ret.query = sq_query /\ sq_ret.perspectives = <<>>

----------------------------------------------------------------------------
(* Properties of the pipeline run *)

EntryShortCircuits(entry) == ShortCircuits(entry.merged, ClaimsOf(entry.query))

\* C10 as stated: without the accelerator every call of summarize_query ends
\* by raising the fatal error, and a run with entries never completes.
C10_FatalWheneverNoAccelerator ==
    ~cuda =>
        /\ sq_pc # "returned"
        /\ pl_pc = "done" => merged_data = <<>>

\* C10 amended: without the accelerator, a call whose corpus is non-empty and
\* that has at least 2 claims raises the fatal error before any model load or
\* generator call and returns no record; main does not catch it: the run
\* aborts at that entry with no results file, and only runs whose every entry
\* short-circuits complete.
C10_FatalPastShortCircuit ==
    ~cuda =>
        /\ model_loads = 0 /\ gen_calls = 0
        /\ (/\ pl_pc = "in_call" /\ sq_pc # "call"
            /\ ~ShortCircuits(sq_corpus, sq_claims)) =>
              (sq_pc = "raised" /\ sq_exc = CudaError /\ sq_ret = <<>>)
        /\ pl_pc = "aborted" =>
              /\ sq_exc = CudaError
              /\ ~results_file.written
              /\ Len(results) = pl_i
              /\ ~EntryShortCircuits(merged_data[pl_i + 1])
        /\ \A i \in 1..Len(results) :
              /\ EntryShortCircuits(merged_data[i])
              /\ results[i].summary = [query |-> merged_data[i].query, perspectives |-> <<>>]
        /\ pl_pc = "done" => \A i \in DOMAIN merged_data : EntryShortCircuits(merged_data[i])

\* C10 witness: no accelerator; the first entry short-circuited, the second
\* raised and the run aborted.
C10_Witness ==
    /\ ~cuda /\ pl_pc = "aborted" /\ pl_i = 1
    /\ Len(results) = 1 /\ ~results_file.written

\* C18: over one pipeline run, whatever the number of queries summarized, the
\* generation model and tokenizer are loaded at most once, and every
\* generation call uses that one loaded model.
C18_ModelLoadedAtMostOnce ==
    /\ model_loads <= 1
    /\ gen_calls > 0 => model_loads = 1

(* the records summarize_query can return for an entry of merged_data *)
PossibleSummaries(entry) ==
    IF EntryShortCircuits(entry)
    THEN {[query |-> entry.query, perspectives |-> <<>>]}
    ELSE {Generate(entry.query, entry.merged, ClaimsOf(entry.query), out) :
              out \in PipeOutputs}

C19_State ==
    /\ Len(results) = pl_i /\ pl_i <= Len(merged_data)
    /\ \A i \in 1..Len(results) :
          /\ DOMAIN results[i] = {"query", "summary"}
          /\ results[i].query = merged_data[i].query
          /\ results[i].summary \in PossibleSummaries(merged_data[i])
    /\ sq_pc \in {"call", "generate", "returned", "raised"} => pl_pc \in {"in_call", "aborted"}
    /\ pl_pc = "in_call" =>
          /\ sq_query = merged_data[pl_i + 1].query
          /\ sq_corpus = merged_data[pl_i + 1].merged
          /\ sq_claims = ClaimsOf(merged_data[pl_i + 1].query)
    /\ results_file.written =>
          /\ pl_pc = "done"
          /\ Len(results) = Len(merged_data)
          /\ results_file.content = results
    /\ pl_pc = "aborted" => ~results_file.written

\* C19: the run processes the (limit-truncated) merged entries strictly in
\* order, entry i+1 being started only after summarize_query returned for
\* entry i; results holds one {query, summary} record per processed entry, in
\* input order, each summary computed from that entry's own query, merged
\* corpus and claims; the results file is written once, after all entries
\* are done, and a run that aborts writes none.
C19_InOrderThenOneWrite ==
    /\ []C19_State
    /\ [][/\ results_file.written => results_file' = results_file
          /\ pl_i' \in {pl_i, pl_i + 1}
          /\ pl_i' = pl_i + 1 => (sq_pc = "returned" /\ pl_pc = "in_call")]_vars

\* C19 witness: a finished run over two entries with different queries, one
\* of them summarized by the generator, and the file written.
C19_Witness ==
    /\ pl_pc = "done" /\ Len(results) = 2
    /\ results[1].query # results[2].query
    /\ gen_calls > 0
    /\ results_file = [written |-> TRUE, content |-> results]

----------------------------------------------------------------------------
(* Properties of retrieve_local_docs *)

RetEnded == rt_pc \in {"returned", "raised"}

(* the returned documents, as dicts *)
Returned(j) == rt_heap[top_docs[j]]

\* C11: for every evidence list D and every k with 0 <= k <= |D|, the call
\* returns exactly k documents, each a copy of a distinct document of D, with
\* score non-increasing along the returned sequence.
C11_ReturnsExactlyK ==
    (RetEnded /\ 0 <= rt_k /\ rt_k <= Len(rt_evidence)) =>
        /\ rt_pc = "returned"
        /\ Len(top_docs) = rt_k
        /\ \A i, j \in DOMAIN top_docs :
              i # j => top_k_indices[i] # top_k_indices[j]
        /\ \A j \in DOMAIN top_docs :
              /\ top_k_indices[j] \in DOMAIN rt_evidence
              /\ \A f \in DOMAIN rt_evidence[top_k_indices[j]] :
                    Returned(j)[f] = rt_evidence[top_k_indices[j]][f]
        /\ \A i, j \in DOMAIN top_docs :
              i < j => Returned(i).score >= Returned(j).score

\* C12: for every evidence list D and every k > |D| the call returns exactly
\* |D| documents and raises nothing; for D = [] it returns [] for any k
\* without a vectorization being attempted.
C12_LargeKReturnsAll ==
    /\ (RetEnded /\ rt_k > Len(rt_evidence)) =>
          /\ rt_pc = "returned"
          /\ Len(top_docs) = Len(rt_evidence)
    /\ (RetEnded /\ rt_evidence = <<>>) =>
          /\ rt_pc = "returned"
          /\ top_docs = <<>>
          /\ fit_calls = 0

\* C13: the call never changes the caller's data: the input list and each
\* input document keep their fields and values (no score is added to them),
\* and every returned document is a dict of its own with the items of the
\* input document it was copied from plus score, and nothing else.
C13_CallerDataUntouched ==
    /\ Len(rt_heap) >= Len(rt_evidence)
    /\ \A i \in DOMAIN rt_evidence : rt_heap[i] = rt_evidence[i]
    /\ rt_pc = "returned" =>
          \A j \in DOMAIN top_docs :
             LET src == rt_evidence[top_k_indices[j]] IN
                /\ top_docs[j] \notin DOMAIN rt_evidence
                /\ DOMAIN Returned(j) = DOMAIN src \cup {"score"}
                /\ \A f \in DOMAIN src : Returned(j)[f] = src[f]

\* C13 witness: two documents returned with their scores, one of them copied
\* from a document that has no content field.
C13_Witness ==
    /\ rt_pc = "returned" /\ Len(top_docs) = 2 /\ Len(rt_evidence) = 3
    /\ \E j \in DOMAIN top_docs : DOMAIN Returned(j) = {"id", "score"}
    /\ \E j \in DOMAIN top_docs : Returned(j).score > 0

----------------------------------------------------------------------------
(* Properties of merge_docs_lists *)

LabelledR(i) == "relevance" \in DOMAIN mg_web[i] /\ mg_web[i].relevance = "R"

(* the position in mg_web of the j-th document labelled "R" *)
NthR(j) ==
    CHOOSE i \in DOMAIN mg_web :
        LabelledR(i) /\ Cardinality({h \in 1..i : LabelledR(h)}) = j

CountR == Cardinality({i \in DOMAIN mg_web : LabelledR(i)})

\* C14: merge_docs_lists(local, web) is local followed by {id: url, content:
\* content} for each web document whose relevance is exactly "R", in web's
\* order: its length is len(local) + count(web where relevance == "R"), a web
\* document with another label or none never appears, and nothing is
\* deduplicated.
C14_LocalThenRelevantWeb ==
    mg_pc = "returned" =>
        /\ Len(mg_ret) = Len(mg_local) + CountR
        /\ \A i \in DOMAIN mg_local : mg_ret[i] = mg_local[i]
        /\ \A j \in 1..CountR :
              mg_ret[Len(mg_local) + j] =
                 [id |-> mg_web[NthR(j)].url, content |-> mg_web[NthR(j)].content]

\* C14 witness: a web document labelled "R" whose url is the id of a local
\* document, next to web documents labelled "NR", "r" or not labelled: the
\* id appears twice in the result.
C14_Witness ==
    /\ mg_pc = "returned"
    /\ mg_local = <<LocalDoc(StrId("u1"))>>
    /\ Len(mg_web) = 2 /\ CountR = 1
    /\ \E i \in DOMAIN mg_web : LabelledR(i) /\ mg_web[i].url = StrId("u1")
    /\ Len(mg_ret) = 2 /\ mg_ret[1].id = mg_ret[2].id

----------------------------------------------------------------------------
(* Properties of recall_at_k and cover_at_k *)

GoldSet == {gold_ids[i] : i \in DOMAIN gold_ids}

(* the ids among the first min(n, len) of retrieved_ids *)
FirstRetrieved(n) ==
    {retrieved_ids[i] : i \in {j \in DOMAIN retrieved_ids : j <= n}}

(* the fraction v is the value a / b *)
IsRatio(v, a, b) == v.den > 0 /\ v.num * b = a * v.den

InUnitInterval(v) == v.den > 0 /\ 0 <= v.num /\ v.num <= v.den

\* C15: for every retrieved_ids, gold_ids and k >= 0, recall_at_k returns
\* |set(first min(k, len) retrieved ids) /\ gold_ids| / |gold_ids|, a value in
\* [0, 1]; it returns 0.0 when gold_ids is empty, for any ids and any k.
C15_RecallAtK ==
    mt_pc = "returned" =>
        /\ GoldSet = {} => mt_recall = [num |-> 0, den |-> 1]
        /\ (mt_k >= 0 /\ GoldSet # {}) =>
              IsRatio(mt_recall,
                      Cardinality(FirstRetrieved(mt_k) \cap GoldSet),
                      Cardinality(GoldSet))
        /\ mt_k >= 0 => InUnitInterval(mt_recall)

\* C15 witness: retrieved [5, 12, 7], gold [12, 99], k = 3 gives 1/2.
C15_Witness ==
    /\ mt_pc = "returned"
    /\ retrieved_ids = <<5, 12, 7>> /\ gold_ids = <<12, 99>> /\ mt_k = 3
    /\ mt_recall = [num |-> 1, den |-> 2]

\* C16: cover_at_k(covered, gold) returns |set(covered) /\ set(gold)| /
\* |set(gold)| over the whole inputs, a value in [0, 1], and 0.0 when gold is
\* empty; so it equals recall_at_k(covered, gold, k) for every
\* k >= len(covered).
C16_CoverAtK ==
    mt_pc = "returned" =>
        /\ GoldSet = {} => mt_cover = [num |-> 0, den |-> 1]
        /\ GoldSet # {} =>
              IsRatio(mt_cover,
                      Cardinality(FirstRetrieved(Len(retrieved_ids)) \cap GoldSet),
                      Cardinality(GoldSet))
        /\ InUnitInterval(mt_cover)
        /\ mt_k >= Len(retrieved_ids) => mt_cover = mt_recall

\* C16 witness: three covered ids, one of them gold and two not, against two
\* gold ids: cover is 1/2, and equals the recall at k = 3.
C16_Witness ==
    /\ mt_pc = "returned"
    /\ Len(retrieved_ids) = 3 /\ mt_k = 3
    /\ Cardinality(GoldSet) = 2
    /\ Cardinality(FirstRetrieved(3) \ GoldSet) = 2
    /\ mt_cover = [num |-> 1, den |-> 2] /\ mt_recall = mt_cover

----------------------------------------------------------------------------
(* Properties of process_web_file *)

(* the label the classification map gives to a document *)
LabelIn(map, doc) == IF Str(doc.id) \in DOMAIN map THEN map[Str(doc.id)] ELSE "NR"

\* C20: process_web_file only adds a relevance field: after a query has been
\* processed, every document of its results carries relevance in {"R", "NR"},
\* equal to the classification map's label for str(id) ("NR" if absent), and
\* its id, content and every other field are as in the input, as are the
\* other fields of the item; with dry_run set no output file is written.
C20_OnlyRelevanceAdded ==
    /\ \A i \in DOMAIN output_data :
          LET item == output_data[i]
              orig == pw_file[i]
          IN /\ pw_data[i] = item
             /\ DOMAIN item = DOMAIN orig
             /\ item.query = orig.query
             /\ "web_docs" \in DOMAIN orig =>
                   /\ DOMAIN item.web_docs = DOMAIN orig.web_docs
                   /\ Len(item.web_docs.results) = Len(orig.web_docs.results)
                   /\ \A j \in DOMAIN orig.web_docs.results :
                         LET doc == item.web_docs.results[j]
                             old == orig.web_docs.results[j]
                         IN /\ DOMAIN doc = DOMAIN old \cup {"relevance"}
                            /\ \A f \in DOMAIN old : doc[f] = old[f]
                            /\ doc.relevance \in {"R", "NR"}
                            /\ doc.relevance = LabelIn(pw_maps[i], old)
    /\ dry_run => ~output_file.written

\* C20 witness: a finished run that wrote its file, with a processed query
\* whose documents were labelled "R" for one and "NR" for another.
C20_Witness ==
    /\ pw_pc = "done" /\ ~dry_run /\ output_file.written
    /\ \E i \in DOMAIN output_data :
          /\ "web_docs" \in DOMAIN output_data[i]
          /\ \E j \in DOMAIN output_data[i].web_docs.results :
                output_data[i].web_docs.results[j].relevance = "R"
          /\ \E j \in DOMAIN output_data[i].web_docs.results :
                output_data[i].web_docs.results[j].relevance = "NR"

(* process_web_file is past the selection of queries_to_process *)
Selected == pw_pc \in {"loop", "done", "aborted"}

\* C21: with limit = N, for any integer N >= 0, process_web_file classifies
\* and outputs only the first N queries of the input file (all of them if the
\* file has fewer than N); only limit = None means all queries.
C21_LimitKeepsFirstN ==
    Selected =>
        /\ (pw_limit.set /\ pw_limit.n >= 0) =>
              /\ Len(pw_data) = Min(pw_limit.n, Len(pw_file))
              /\ Len(output_data) <= Min(pw_limit.n, Len(pw_file))
              /\ \A i \in DOMAIN pw_data : pw_data[i].query = pw_file[i].query
              /\ pw_pc = "done" => Len(output_data) = Min(pw_limit.n, Len(pw_file))
              /\ output_file.written =>
                    Len(output_file.content) = Min(pw_limit.n, Len(pw_file))
        /\ ~pw_limit.set =>
              /\ Len(pw_data) = Len(pw_file)
              /\ pw_pc = "done" => Len(output_data) = Len(pw_file)

====
